---- MODULE Spec2Model ----
(***************************************************************************)
(* Model of the weather question pipeline of src/main.py                   *)
(* (process_question, get_weather_response, get_weather, get_forecast)     *)
(* and of the recording worker of src/gui.py.                              *)
(*                                                                         *)
(* Dates are calendar days (integers).  The NLP model and the date parser  *)
(* are oracles: a question is what they report about it (first GPE entity, *)
(* first fallback noun chunk, first DATE entity and how it parses) plus    *)
(* the words of its text.  The wall clock is a variable that the           *)
(* environment may advance between any two steps of the program.           *)
(***************************************************************************)
EXTENDS Integers, Sequences, FiniteSets

VARIABLES
    pc,           \* position of the console thread inside get_weather_response
    clock,        \* the wall clock's calendar day (datetime.now().date())
    api_key,      \* os.getenv("OPENWEATHERMAP_API_KEY")
    question,     \* the question being answered
    location,     \* process_question: location
    date_entity,  \* process_question: date_entity
    target_date,  \* process_question: target_date.date()
    intent,       \* process_question: intent
    now,          \* process_question: now.date()  (line 162)
    ret,          \* the tuple process_question returned
    branch,       \* the return statement of get_weather_response that was taken
    netCalls,     \* requests.get calls issued by the current call
    result,       \* what get_weather_response returned or raised
    fc_day,       \* get_forecast called alone: date.date()
    fc_resp,      \* get_forecast called alone: what requests.get answers
    fc_result,    \* get_forecast called alone: what it returned or raised
    is_recording,    \* WeatherApp.is_recording
    button_text,     \* WeatherApp.record_button's text
    button_enabled,  \* WeatherApp.record_button's enabled flag
    w_is_recording,  \* VoiceWorker._is_recording
    wpc,             \* position of the worker thread inside run_recording
    frames,          \* len(VoiceWorker.audio_frames), MaxFrames standing for more
    events           \* queued signal deliveries waiting in the GUI thread's event loop

pvars == <<pc, clock, api_key, question, location, date_entity, target_date,
           intent, now, ret, branch, netCalls, result>>

fvars == <<fc_day, fc_resp, fc_result>>

gvars == <<is_recording, button_text, button_enabled, w_is_recording, wpc,
           frames, events>>

vars == <<pvars, fvars, gvars>>

---------------------------------------------------------------------------
(* Bounds *)

MaxDay == 2

MaxOffset == 6

(* Program constants *)

HorizonDays == 5

None == "None"

---------------------------------------------------------------------------
(* Python values *)

Truthy(x) == x /= None /\ x /= ""

NoDate == <<>>

NoLocationTuple ==
    [location |-> "Could not determine the location from your question.",
     intent |-> None, date |-> NoDate]

Return(text) == [kind |-> "return", text |-> text, lines |-> <<>>]

Raise(exc) == [kind |-> "raise", text |-> exc, lines |-> <<>>]

NoResult == [kind |-> "none", text |-> "", lines |-> <<>>]

---------------------------------------------------------------------------
(* Questions *)

Vocabulary == {"temperature", "humidity", "wind", "forecast", "Forecast"}

Offsets == {-1, 0, 1} \cup ((HorizonDays - 1) .. MaxOffset)

DateEntities ==
    {[kind |-> "none", off |-> 0], [kind |-> "unparseable", off |-> 0]}
    \cup {[kind |-> "relative", off |-> o] : o \in Offsets}

Questions ==
    [gpe : {None, "London"}, chunk : {None, "the moon"},
     date : DateEntities, words : SUBSET Vocabulary]

NoQuestion ==
    [gpe |-> None, chunk |-> None, date |-> [kind |-> "none", off |-> 0],
     words |-> {}]

(* str.lower() left out: the keyword test sees the text as typed *)
Lower_AsTyped(w) == w

(* str.lower() on a word of the text *)
Lower(w) == IF w = "Forecast" THEN "forecast" ELSE w

(* kw in question.lower() *)
InLowered(kw, words) == \E w \in words : Lower(w) = kw

(* lines 121-132: first GPE entity, else first noun chunk whose head holds
   "in" or "for" *)
ExtractLocation(q) == IF Truthy(q.gpe) THEN q.gpe ELSE q.chunk

(* dateparser.parse(date_entity, settings={'PREFER_DATES_FROM': 'future'}),
   called on day `today` *)
DateparserParse(ent, today) ==
    IF ent.kind = "relative"
    THEN [ok |-> TRUE, day |-> today + ent.off]
    ELSE [ok |-> FALSE, day |-> today]

(* lines 150-159 *)
DetectIntent(words, ent, target, today) ==
    IF InLowered("temperature", words) THEN "temperature"
    ELSE IF InLowered("humidity", words) THEN "humidity"
    ELSE IF InLowered("wind", words) THEN "wind speed"
    ELSE IF InLowered("forecast", words)
            \/ (ent.kind /= "none" /\ target > today) THEN "forecast"
    ELSE "current weather"

(* the horizon test with >= for > *)
OverHorizon_Inclusive(target, today) == target >= today + HorizonDays

(* line 167 *)
OverHorizon(target, today) == target > today + HorizonDays

(* lines 162-171 *)
RouteTuple(loc, int, target, today) ==
    IF target < today
    THEN [location |-> loc, intent |-> "past_weather", date |-> <<target>>]
    ELSE IF target > today \/ int = "forecast"
    THEN IF OverHorizon(target, today)
         THEN [location |-> loc, intent |-> "future_weather_limit",
               date |-> <<target>>]
         ELSE [location |-> loc, intent |-> "forecast", date |-> <<target>>]
    ELSE [location |-> loc, intent |-> int, date |-> <<today>>]

(* the past tag misspelt in get_weather_response's first comparison *)
ResponseBranch_Typo(loc, int) ==
    IF int = "past weather" THEN "L182"
    ELSE IF int = "future_weather_limit" THEN "L185"
    ELSE IF Truthy(loc) /\ Truthy(int)
    THEN IF int = "forecast" THEN "L189" ELSE "L191"
    ELSE IF Truthy(loc) THEN "L196" ELSE "L198"

(* lines 181-198: which return statement get_weather_response reaches *)
ResponseBranch(loc, int) ==
    IF int = "past_weather" THEN "L182"
    ELSE IF int = "future_weather_limit" THEN "L185"
    ELSE IF Truthy(loc) /\ Truthy(int)
    THEN IF int = "forecast" THEN "L189" ELSE "L191"
    ELSE IF Truthy(loc) THEN "L196" ELSE "L198"

(* the key test left out *)
KeyConfigured_Unchecked(k) == TRUE

(* lines 26 and 73: `if not api_key` *)
KeyConfigured(k) == Truthy(k)

---------------------------------------------------------------------------
PipelineIdle ==
    /\ pc = "idle"
    /\ clock = 0
    /\ question = NoQuestion
    /\ location = None
    /\ date_entity = [kind |-> "none", off |-> 0]
    /\ target_date = 0
    /\ intent = None
    /\ now = 0
    /\ ret = NoLocationTuple
    /\ branch = None
    /\ netCalls = 0
    /\ result = NoResult

ForecastIdle ==
    /\ fc_day = 0
    /\ fc_resp = [net |-> "transport_error",
                  data |-> [obj |-> TRUE, hasList |-> FALSE, list |-> <<>>]]
    /\ fc_result = NoResult

(* WeatherApp.__init__, lines 84-98, and VoiceWorker.__init__, lines 18-23 *)
GuiIdle ==
    /\ is_recording = FALSE
    /\ button_text = "Press to Talk"
    /\ button_enabled = TRUE
    /\ w_is_recording = FALSE
    /\ wpc = "none"
    /\ frames = 0
    /\ events = <<>>

Init ==
    /\ PipelineIdle
    /\ api_key \in {None, "k"}
    /\ ForecastIdle
    /\ GuiIdle

(* The environment: midnight passes *)
Tick ==
    /\ UNCHANGED <<fvars, gvars>>
    /\ clock < MaxDay
    /\ clock' = clock + 1
    /\ UNCHANGED <<pc, api_key, question, location, date_entity, target_date,
                   intent, now, ret, branch, netCalls, result>>

(* main_console, line 209: a question is read and get_weather_response is
   called; process_question runs lines 119-144 *)
Ask ==
    /\ UNCHANGED <<fvars, gvars>>
    /\ pc = "idle"
    /\ \E q \in Questions :
        /\ question' = q
        /\ location' = ExtractLocation(q)
        /\ IF ~Truthy(ExtractLocation(q))
           THEN /\ date_entity' = date_entity
                /\ target_date' = target_date
                /\ pc' = "dispatch"
           ELSE /\ date_entity' = q.date
                /\ target_date' = clock
                /\ pc' = IF q.date.kind /= "none" THEN "parse" ELSE "intent"
    /\ ret' = NoLocationTuple
    /\ UNCHANGED <<clock, api_key, intent, now, branch, netCalls, result>>

(* lines 145-148 *)
ParseDate ==
    /\ UNCHANGED <<fvars, gvars>>
    /\ pc = "parse"
    /\ LET parsed == DateparserParse(date_entity, clock)
       IN target_date' = IF parsed.ok THEN parsed.day ELSE target_date
    /\ pc' = "intent"
    /\ UNCHANGED <<clock, api_key, question, location, date_entity, intent,
                   now, ret, branch, netCalls, result>>

(* lines 150-159 *)
Classify ==
    /\ UNCHANGED <<fvars, gvars>>
    /\ pc = "intent"
    /\ intent' = DetectIntent(question.words, date_entity, target_date, clock)
    /\ pc' = "route"
    /\ UNCHANGED <<clock, api_key, question, location, date_entity,
                   target_date, now, ret, branch, netCalls, result>>

(* lines 161-171 *)
Route ==
    /\ UNCHANGED <<fvars, gvars>>
    /\ pc = "route"
    /\ now' = clock
    /\ ret' = RouteTuple(location, intent, target_date, clock)
    /\ pc' = "dispatch"
    /\ UNCHANGED <<clock, api_key, question, location, date_entity,
                   target_date, intent, branch, netCalls, result>>

---------------------------------------------------------------------------
(* The weather provider *)

(* A decoded payload of the current-conditions endpoint: whether it is a JSON
   object, which of the top-level keys it has, and the length of 'weather' *)
FullPayload == [obj |-> TRUE, keys |-> {"main", "wind", "weather"}, nweather |-> 1]

ErrorPayload == [obj |-> TRUE, keys |-> {}, nweather |-> 0]

EmptyWeatherPayload ==
    [obj |-> TRUE, keys |-> {"main", "wind", "weather"}, nweather |-> 0]

NotObjectPayload == [obj |-> FALSE, keys |-> {}, nweather |-> 0]

WeatherPayloads ==
    {FullPayload, ErrorPayload, EmptyWeatherPayload, NotObjectPayload}

WeatherResponses ==
    {[net |-> "transport_error", data |-> ErrorPayload],
     [net |-> "http_error", data |-> ErrorPayload]}
    \cup {[net |-> "ok", data |-> d] : d \in WeatherPayloads}

(* lines 41-61: the subscripts each intent evaluates, in order *)
Accesses(int) ==
    IF int = "temperature" THEN <<"main">>
    ELSE IF int = "humidity" THEN <<"main">>
    ELSE IF int = "wind speed" THEN <<"wind">>
    ELSE IF int = "current weather" THEN <<"weather[0]", "main">>
    ELSE IF int = "forecast" THEN <<"weather[0]">>
    ELSE <<>>

(* data[key], or data['weather'][0]: the exception it raises, or "ok" *)
Subscript(data, access) ==
    IF ~data.obj THEN "TypeError"
    ELSE IF access = "weather[0]"
    THEN IF "weather" \notin data.keys THEN "KeyError"
         ELSE IF data.nweather = 0 THEN "IndexError"
         ELSE "ok"
    ELSE IF access \notin data.keys THEN "KeyError"
    ELSE "ok"

RECURSIVE FirstFailure(_, _)
FirstFailure(data, accesses) ==
    IF accesses = <<>> THEN "ok"
    ELSE IF Subscript(data, Head(accesses)) /= "ok"
    THEN Subscript(data, Head(accesses))
    ELSE FirstFailure(data, Tail(accesses))

(* lines 41-61: the sentence of each intent *)
WeatherSentence(int) ==
    IF int = "temperature" THEN "The current temperature in {location} is {temp}F."
    ELSE IF int = "humidity" THEN "The current humidity in {location} is {humidity}%."
    ELSE IF int = "wind speed"
    THEN "The current wind speed in {location} is {wind_speed} mph."
    ELSE IF int = "current weather"
    THEN "The current weather in {location} is {weather_desc} with a temperature of {temp}F."
    ELSE IF int = "forecast" THEN "The current forecast for {location} is: {weather_desc}."
    ELSE "I can't provide that information yet."

(* lines 36-66: get_weather from the answer of requests.get on *)
GetWeatherResult(int, r) ==
    IF r.net /= "ok" THEN Return("Error fetching weather data: {e}")
    ELSE LET exc == FirstFailure(r.data, Accesses(int))
         IN IF exc = "ok" THEN Return(WeatherSentence(int))
            ELSE IF exc = "KeyError"
            THEN Return("Could not find weather data for {location}. Please check the location name.")
            ELSE Raise(exc)

(* Forecast payloads.  A 'dt' counts slots of the provider's time grid;
   SlotsPerDay of them make a local calendar day. *)
SlotsPerDay == 2

(* datetime.fromtimestamp(forecast['dt']).date() *)
DayOf(dt) == dt \div SlotsPerDay

(* the datetimes compared instead of their dates *)
DateMatches_Datetime(dt, day) == dt = day * SlotsPerDay

(* line 93 *)
DateMatches(dt, day) == DayOf(dt) = day

EntryShapes == {"ok", "no_dt", "empty_weather"}

(* lines 91-94 *)
RECURSIVE FilterEntries(_, _)
FilterEntries(forecasts, day) ==
    IF forecasts = <<>> THEN [exc |-> "ok", out |-> <<>>]
    ELSE LET f == Head(forecasts)
             rest == FilterEntries(Tail(forecasts), day)
         IN IF f.shape = "no_dt" THEN [exc |-> "KeyError", out |-> <<>>]
            ELSE IF rest.exc /= "ok" THEN rest
            ELSE [exc |-> "ok",
                  out |-> IF DateMatches(f.dt, day) THEN <<f>> \o rest.out
                          ELSE rest.out]

(* lines 101-105: one line per entry of target_forecasts *)
RECURSIVE Summarize(_)
Summarize(targets) ==
    IF targets = <<>> THEN [exc |-> "ok", lines |-> <<>>]
    ELSE LET f == Head(targets)
             rest == Summarize(Tail(targets))
         IN IF f.shape = "empty_weather" THEN [exc |-> "IndexError", lines |-> <<>>]
            ELSE IF rest.exc /= "ok" THEN rest
            ELSE [exc |-> "ok", lines |-> <<f.dt>> \o rest.lines]

(* lines 83-112: get_forecast from the answer of requests.get on *)
GetForecastResult(day, r) ==
    IF r.net /= "ok" THEN Return("Error fetching forecast data: {e}")
    ELSE IF ~r.data.obj THEN Raise("TypeError")
    ELSE IF ~r.data.hasList
    THEN Return("Could not find forecast data for {location}. Please check the location name.")
    ELSE LET f == FilterEntries(r.data.list, day)
         IN IF f.exc /= "ok"
            THEN Return("Could not find forecast data for {location}. Please check the location name.")
            ELSE IF f.out = <<>>
            THEN Return("No forecast data available for {location} on {date}.")
            ELSE LET s == Summarize(f.out)
                 IN IF s.exc /= "ok" THEN Raise(s.exc)
                    ELSE [kind |-> "return",
                          text |-> "Forecast for {location} on {date}:",
                          lines |-> s.lines]

Entries(dts) == [dt : dts, shape : EntryShapes]

SeqsUpTo(S, n) == UNION {[1..k -> S] : k \in 0..n}

ForecastResponses(dts, n) ==
    {[net |-> "transport_error", data |-> [obj |-> TRUE, hasList |-> FALSE, list |-> <<>>]],
     [net |-> "http_error", data |-> [obj |-> TRUE, hasList |-> FALSE, list |-> <<>>]],
     [net |-> "ok", data |-> [obj |-> FALSE, hasList |-> FALSE, list |-> <<>>]],
     [net |-> "ok", data |-> [obj |-> TRUE, hasList |-> FALSE, list |-> <<>>]]}
    \cup {[net |-> "ok", data |-> [obj |-> TRUE, hasList |-> TRUE, list |-> l]] :
            l \in SeqsUpTo(Entries(dts), n)}

(* the longest forecast list the provider sends back *)
MaxEntries == 2

---------------------------------------------------------------------------
(* get_weather_response, lines 179-198, up to the request of get_weather
   (lines 25-37) or get_forecast (lines 72-84) *)
Dispatch ==
    /\ UNCHANGED <<fvars, gvars>>
    /\ pc = "dispatch"
    /\ LET b == ResponseBranch(ret.location, ret.intent)
       IN /\ branch' = b
          /\ IF b = "L182"
             THEN /\ result' = Return("I'm sorry, but I cannot retrieve historical weather data with the current plan.")
                  /\ pc' = "done"
                  /\ netCalls' = netCalls
             ELSE IF b = "L185"
             THEN /\ result' = Return("I can only provide a 5-day forecast. {date} is too far in the future.")
                  /\ pc' = "done"
                  /\ netCalls' = netCalls
             ELSE IF b = "L196"
             THEN /\ result' = Return("Sorry, I could understand the location but not the rest of your question. Please try again.")
                  /\ pc' = "done"
                  /\ netCalls' = netCalls
             ELSE IF b = "L198"
             THEN /\ result' = Return("Sorry, I couldn't understand your question. Please try again.")
                  /\ pc' = "done"
                  /\ netCalls' = netCalls
             ELSE IF ~KeyConfigured(api_key)
             THEN /\ result' = Return("Error: OPENWEATHERMAP_API_KEY not found. Please set it in your .env file.")
                  /\ pc' = "done"
                  /\ netCalls' = netCalls
             ELSE /\ result' = result
                  /\ pc' = "waiting"
                  /\ netCalls' = netCalls + 1
    /\ UNCHANGED <<clock, api_key, question, location, date_entity,
                   target_date, intent, now, ret>>

(* requests.get answers; get_weather runs lines 38-66 *)
WeatherAnswer ==
    /\ UNCHANGED <<fvars, gvars>>
    /\ pc = "waiting"
    /\ branch = "L191"
    /\ \E r \in WeatherResponses : result' = GetWeatherResult(ret.intent, r)
    /\ pc' = "done"
    /\ UNCHANGED <<clock, api_key, question, location, date_entity,
                   target_date, intent, now, ret, branch, netCalls>>

(* requests.get answers; get_forecast runs lines 85-112.  The entries sent
   back here start the target day or the day after; ForecastSpec covers the
   other lists. *)
ForecastAnswer ==
    /\ UNCHANGED <<fvars, gvars>>
    /\ pc = "waiting"
    /\ branch = "L189"
    /\ LET day == ret.date[1]
       IN \E r \in ForecastResponses({day * SlotsPerDay, (day + 1) * SlotsPerDay}, MaxEntries) :
            result' = GetForecastResult(day, r)
    /\ pc' = "done"
    /\ UNCHANGED <<clock, api_key, question, location, date_entity,
                   target_date, intent, now, ret, branch, netCalls>>

(* main_console, lines 213-214: the response is printed and the loop goes
   back to its prompt; the call's locals are gone.  An exception leaves the
   loop instead. *)
PrintResponse ==
    /\ UNCHANGED <<fvars, gvars>>
    /\ pc = "done"
    /\ result.kind = "return"
    /\ pc' = "idle"
    /\ question' = NoQuestion
    /\ location' = None
    /\ date_entity' = [kind |-> "none", off |-> 0]
    /\ target_date' = 0
    /\ intent' = None
    /\ now' = 0
    /\ ret' = NoLocationTuple
    /\ branch' = None
    /\ netCalls' = 0
    /\ result' = NoResult
    /\ UNCHANGED <<clock, api_key>>

Step == Ask \/ ParseDate \/ Classify \/ Route \/ Dispatch \/ PrintResponse

Next == Tick \/ Ask \/ ParseDate \/ Classify \/ Route \/ Dispatch
        \/ WeatherAnswer \/ ForecastAnswer \/ PrintResponse

Spec == Init /\ [][Next]_vars

(* The interpreter runs the thread: a step of the program that can be taken
   is taken.  Nothing obliges the clock to advance or the provider to answer. *)
FairSpec == Spec /\ WF_vars(Step)

---------------------------------------------------------------------------
(* get_forecast on its own: every target day and every answer of the
   provider within the bounds *)

ForecastInit ==
    /\ PipelineIdle
    /\ api_key = "k"
    /\ GuiIdle
    /\ fc_day \in 0 .. MaxDay
    /\ fc_resp \in ForecastResponses(0 .. ((MaxDay + 1) * SlotsPerDay), MaxEntries)
    /\ fc_result = NoResult

(* lines 83-112 *)
CallGetForecast ==
    /\ fc_result = NoResult
    /\ fc_result' = GetForecastResult(fc_day, fc_resp)
    /\ UNCHANGED <<fc_day, fc_resp, pvars, gvars>>

ForecastNext == CallGetForecast

ForecastSpec == ForecastInit /\ [][ForecastNext]_vars

---------------------------------------------------------------------------
(* The recording worker and the button of src/gui.py *)

MaxFrames == 3

GuiInit ==
    /\ PipelineIdle
    /\ api_key = "k"
    /\ ForecastIdle
    /\ GuiIdle

(* toggle_recording, lines 117-125: the first click *)
ClickStart ==
    /\ button_enabled
    /\ ~is_recording
    /\ is_recording' = TRUE
    /\ button_text' = "Stop Recording"
    /\ wpc' = "started"
    /\ UNCHANGED <<button_enabled, w_is_recording, frames, events, pvars, fvars>>

(* toggle_recording, lines 126-130, and VoiceWorker.stop, line 69 *)
ClickStop ==
    /\ button_enabled
    /\ is_recording
    /\ button_text' = "Processing..."
    /\ button_enabled' = FALSE
    /\ w_is_recording' = FALSE
    /\ UNCHANGED <<is_recording, wpc, frames, events, pvars, fvars>>

(* run_recording, lines 30-34 *)
WorkerEnter ==
    /\ wpc = "started"
    /\ w_is_recording' = TRUE
    /\ frames' = 0
    /\ wpc' = "test"
    /\ UNCHANGED <<is_recording, button_text, button_enabled, events, pvars, fvars>>

(* run_recording, line 36 *)
WorkerTest ==
    /\ wpc = "test"
    /\ wpc' = IF w_is_recording THEN "read" ELSE "after"
    /\ UNCHANGED <<is_recording, button_text, button_enabled, w_is_recording,
                   frames, events, pvars, fvars>>

(* run_recording, lines 38-40: a buffer, empty or not, is read *)
WorkerRead ==
    /\ wpc = "read"
    /\ \E buffer \in BOOLEAN :
        frames' = IF buffer /\ frames < MaxFrames THEN frames + 1 ELSE frames
    /\ wpc' = "test"
    /\ UNCHANGED <<is_recording, button_text, button_enabled, w_is_recording,
                   events, pvars, fvars>>

(* run_recording, lines 41-42: the stream fails *)
WorkerIOError ==
    /\ wpc = "read"
    /\ wpc' = "after"
    /\ UNCHANGED <<is_recording, button_text, button_enabled, w_is_recording,
                   frames, events, pvars, fvars>>

(* run_recording, lines 45-48 *)
WorkerNoAudio ==
    /\ wpc = "after"
    /\ frames = 0
    /\ events' = events \o <<"message:System", "finished">>
    /\ wpc' = "none"
    /\ UNCHANGED <<is_recording, button_text, button_enabled, w_is_recording,
                   frames, pvars, fvars>>

(* run_recording, lines 50-65: recognition and get_weather_response are taken
   to come back, with a value or an exception; `finally` emits finished *)
WorkerProcess ==
    /\ wpc = "after"
    /\ frames > 0
    /\ \E outcome \in {"answered", "recognition_failed", "raised"} :
        events' = events \o
            (IF outcome = "answered"
             THEN <<"message:System", "message:User", "message:Bot", "finished">>
             ELSE IF outcome = "recognition_failed"
             THEN <<"message:System", "message:Bot", "finished">>
             ELSE <<"message:System", "message:User", "finished">>)
    /\ wpc' = "none"
    /\ UNCHANGED <<is_recording, button_text, button_enabled, w_is_recording,
                   frames, pvars, fvars>>

(* add_message, lines 102-108, run by the event loop *)
DeliverMessage ==
    /\ events /= <<>>
    /\ Head(events) /= "finished"
    /\ events' = Tail(events)
    /\ UNCHANGED <<is_recording, button_text, button_enabled, w_is_recording,
                   wpc, frames, pvars, fvars>>

(* on_worker_finished, lines 132-137, run by the event loop *)
OnWorkerFinished ==
    /\ events /= <<>>
    /\ Head(events) = "finished"
    /\ events' = Tail(events)
    /\ is_recording' = FALSE
    /\ button_text' = "Press to Talk"
    /\ button_enabled' = TRUE
    /\ UNCHANGED <<w_is_recording, wpc, frames, pvars, fvars>>

WorkerStep == WorkerEnter \/ WorkerTest \/ WorkerRead \/ WorkerNoAudio \/ WorkerProcess

EventLoopStep == DeliverMessage \/ OnWorkerFinished

GuiNext == ClickStart \/ ClickStop \/ WorkerEnter \/ WorkerTest \/ WorkerRead
           \/ WorkerIOError \/ WorkerNoAudio \/ WorkerProcess
           \/ DeliverMessage \/ OnWorkerFinished

GuiSpec == GuiInit /\ [][GuiNext]_vars

(* The worker thread and the event loop keep running.  Nothing obliges the
   user to click or the audio stream to fail. *)
GuiFairSpec == GuiSpec /\ WF_vars(WorkerStep) /\ WF_vars(EventLoopStep)

---------------------------------------------------------------------------
(* Properties *)

Routed == pc \in {"dispatch", "waiting", "done"}

MeasurementIntents == {"temperature", "humidity", "wind speed", "current weather"}

(* The outcome a returned tuple stands for *)
IsNoLocation(t) == t.intent = None
IsPastWeather(t) == t.intent = "past_weather"
IsForecastOutOfRange(t) == t.intent = "future_weather_limit"
IsForecast(t) == t.intent = "forecast"
IsCurrentMeasurement(t) == t.intent \in MeasurementIntents

OutcomesOf(t) ==
    {o \in {"NoLocation", "PastWeather", "ForecastOutOfRange", "Forecast",
            "CurrentMeasurement"} :
        \/ o = "NoLocation" /\ IsNoLocation(t)
        \/ o = "PastWeather" /\ IsPastWeather(t)
        \/ o = "ForecastOutOfRange" /\ IsForecastOutOfRange(t)
        \/ o = "Forecast" /\ IsForecast(t)
        \/ o = "CurrentMeasurement" /\ IsCurrentMeasurement(t)}

(* C1: a question in which neither the GPE scan nor the noun-phrase fallback
   finds a location is answered with exactly "Could not determine the
   location from your question." *)
C1_NoLocationMessage ==
    (pc = "done" /\ ~Truthy(question.gpe) /\ ~Truthy(question.chunk))
        => result = Return("Could not determine the location from your question.")

(* C2: get_weather_response never raises: whatever the provider does, the
   call ends by returning a string. *)
C2_NeverRaises == pc = "done" => result.kind = "return"

(* The call is on the fetching path *)
C3_FetchPath ==
    /\ Truthy(location)
    /\ (IsForecast(ret) \/ IsCurrentMeasurement(ret))
    /\ Truthy(api_key)

(* C3: a request goes out only when a location was extracted, the outcome is
   Forecast or CurrentMeasurement and the API key is configured; every other
   call returns its string with zero requests, and a call on the fetching
   path ends with exactly one request. *)
C3_RequestsOnlyWhenRouted ==
    /\ netCalls \in {0, 1}
    /\ netCalls > 0 => C3_FetchPath
    /\ pc = "done" => netCalls = (IF C3_FetchPath THEN 1 ELSE 0)
    /\ (pc = "done" /\ ~C3_FetchPath) => result.kind = "return"

C3_Witness ==
    /\ pc = "done"
    /\ netCalls = 1
    /\ result.kind = "return"
    /\ IsCurrentMeasurement(ret)

(* C4: with a location, a target date of today + 5 days routes to Forecast
   and a target date of today + 6 days or later routes to
   ForecastOutOfRange, whatever the intent. *)
C4_HorizonBoundary ==
    (Routed /\ Truthy(location)) =>
        /\ target_date = now + 5 => IsForecast(ret)
        /\ target_date >= now + 6 => IsForecastOutOfRange(ret)

C4_Witness ==
    /\ Routed
    /\ Truthy(location)
    /\ target_date = now + 5
    /\ intent = "temperature"
    /\ IsForecast(ret)

(* The decision table: the outcome each combination is to have *)
C5_Expected ==
    IF ~Truthy(location) THEN "NoLocation"
    ELSE IF target_date < now THEN "PastWeather"
    ELSE IF target_date > now \/ intent = "forecast"
    THEN IF target_date > now + 5 THEN "ForecastOutOfRange" ELSE "Forecast"
    ELSE "CurrentMeasurement"

(* C5: routing is total and deterministic: every combination of location,
   intent and target date maps to exactly one outcome, the one the decision
   table names, and get_weather_response sends each outcome to a return
   statement of its own. *)
C5_RoutingTotal ==
    Routed =>
        /\ OutcomesOf(ret) = {C5_Expected}
        /\ pc \in {"waiting", "done"} =>
            /\ IsPastWeather(ret) <=> branch = "L182"
            /\ IsForecastOutOfRange(ret) <=> branch = "L185"
            /\ IsForecast(ret) <=> branch = "L189"
            /\ IsCurrentMeasurement(ret) <=> branch = "L191"
            /\ IsNoLocation(ret) <=> branch \in {"L196", "L198"}

C5_Witness ==
    /\ pc = "done"
    /\ IsPastWeather(ret)
    /\ branch = "L182"
    /\ question.date.kind = "relative"

(* C6 as stated: a question with a location, a target date equal to today
   and the word "forecast" in its text, in any case, has the outcome
   Forecast whatever other keywords it contains. *)
C6_ForecastKeywordWins ==
    (Routed /\ Truthy(location) /\ target_date = now
        /\ (\E w \in question.words : w \in {"forecast", "Forecast"}))
        => IsForecast(ret) /\ (pc = "done" => branch = "L189")

(* C6 as amended: the same, for a question whose text holds none of
   "temperature", "humidity" and "wind". *)
C6_ForecastKeywordAlone ==
    (Routed /\ Truthy(location) /\ target_date = now
        /\ (\E w \in question.words : w \in {"forecast", "Forecast"})
        /\ question.words \cap {"temperature", "humidity", "wind"} = {})
        => IsForecast(ret) /\ (pc = "done" => branch = "L189")

C6_Witness ==
    /\ pc = "done"
    /\ Truthy(location)
    /\ target_date = now
    /\ question.words = {"Forecast"}
    /\ question.date.kind = "none"
    /\ branch = "L189"

(* C7: every call of get_weather_response eventually returns. *)
C7_EventuallyReturns == (pc = "waiting") ~> (pc = "done")

(* C8: with a location and no date expression, or one that does not parse,
   the target date is today's and the outcome is never PastWeather or
   ForecastOutOfRange, wherever the clock advances between the reads. *)
C8_NoDateIsToday ==
    (Routed /\ Truthy(location) /\ question.date.kind \in {"none", "unparseable"})
        => /\ target_date = now
           /\ ~IsPastWeather(ret)
           /\ ~IsForecastOutOfRange(ret)

(* get_forecast was called and the provider sent a well-formed list; the
   entries of it that fall on the target day *)
C9_FetchSucceeded ==
    /\ fc_result /= NoResult
    /\ fc_resp.net = "ok"
    /\ fc_resp.data.obj
    /\ fc_resp.data.hasList
    /\ \A i \in DOMAIN fc_resp.data.list : fc_resp.data.list[i].shape = "ok"

C9_OnTargetDay(e) == e.dt \div SlotsPerDay = fc_day

C9_Matching == SelectSeq(fc_resp.data.list, C9_OnTargetDay)

(* C9: when the fetch succeeds, get_forecast answers "No forecast data
   available" exactly when no entry of the provider's list falls on the
   target date; otherwise the digest has one line for each entry that does,
   and for no other, in the provider's order. *)
C9_ForecastDigest ==
    C9_FetchSucceeded =>
        /\ fc_result.kind = "return"
        /\ (fc_result.text = "No forecast data available for {location} on {date}.")
            <=> (\A i \in DOMAIN fc_resp.data.list :
                    ~C9_OnTargetDay(fc_resp.data.list[i]))
        /\ C9_Matching /= <<>> =>
            /\ fc_result.text = "Forecast for {location} on {date}:"
            /\ fc_result.lines = [i \in DOMAIN C9_Matching |-> C9_Matching[i].dt]

C9_Witness ==
    /\ C9_FetchSucceeded
    /\ Len(fc_resp.data.list) = 2
    /\ Len(fc_result.lines) = 1
    /\ fc_resp.data.list[1].dt > fc_resp.data.list[2].dt

(* C10: once the user has clicked to stop, the worker's loop exits, finished
   is emitted and on_worker_finished resets is_recording and the button,
   whatever the interleaving of run_recording and stop(). *)
C10_StopLeadsToReset ==
    (button_text = "Processing...")
        ~> (~is_recording /\ button_text = "Press to Talk" /\ button_enabled)

====
